---- MODULE Spec2Model ----
(***************************************************************************)
(* Model of the Maestro servo Controller of movement.py: the three         *)
(* per-channel tables (Targets, Mins, Maxs), the Pololu command framing,   *)
(* the request/response exchanges with the serial port and the gestures    *)
(* composed of them.  Each public method is one action; the serial port    *)
(* is the environment: it supplies the response bytes and may raise on any *)
(* write or read.                                                          *)
(***************************************************************************)
EXTENDS Integers, Sequences, FiniteSets, TLC

\* ------------------------------------------------------------------ bounds
\* number of method calls explored after construction
MaxOps == 2
\* largest value fed to the encode/decode round trip
CodecMax == 16383

\* ------------------------------------------------------- program constants
NumChannels == 24
DefaultDevice == 12
Chans == 0 .. (NumChannels - 1)
\* largest value of the 14-bit contract range
Max14 == (128 * 128) - 1

\* ------------------------------------------------------------------ inputs
\* the script constructs Controller() with the default device number
DeviceInputs == {DefaultDevice}
ChanInputs == {1, 3}
RangeInputs == { <<0, 0>>, <<5000, 7000>>, <<7000, 5000>>, <<6500, 0>> }
TargetInputs == {0, 6900, 8000, 16383, 20000}
SpeedInputs == {1000}
AccelInputs == {127, 255}
SubInputs == {2, 256}
PosInputs == {4000, 7500, 8000}
\* the first and the second position read by a relative head gesture
PosPairInputs ==
  { <<8000, 8000>>, <<4000, 4000>>, <<7500, 8000>>, <<7500, 4000>>,
    <<7500, 7500>>, <<8000, 7500>> }
ByteInputs == {0, 255}
NoArg == -1

VARIABLES Targets, Mins, Maxs, PololuCmd, PY2, closed, last, nops, rt, sent, wire

vars == <<Targets, Mins, Maxs, PololuCmd, PY2, closed, last, nops, rt, sent, wire>>

\* ------------------------------------------------------------ byte helpers
\* the two bytes a device sends for a position: low 8 bits, then high 8 bits
PosBytes(p) == << p % 256, p \div 256 >>

\* target & 0x7f
Lsb(v) == v % 128

\* (target >> 7) & 0x7f
Msb(v) == (v \div 128) % 128

\* mutant: the high byte shifted by 7 bits, as the encode rule would suggest
DecodeShift7(lsb, msb) == (msb * 128) + lsb

\* (msb << 8) + lsb
Decode(lsb, msb) == (msb * 256) + lsb

\* ----------------------------------------------------- running one method
\* The state of one method call in progress: the tables, the frames written
\* (out), the response bytes consumed (rd), the number of serial calls made
\* (io), the exception raised (err), the value returned (ret), the serial
\* calls in the order they were made (ev), what has crossed the serial port
\* since construction (snt, w), and the environment of the call: the serial
\* call that raises (failAt, 0 for none) and the bytes the device answers
\* with (resp).
Start(failAt, resp) ==
  [ T |-> Targets, Mn |-> Mins, Mx |-> Maxs, out |-> <<>>, rd |-> <<>>,
    io |-> 0, err |-> "none", ret |-> NoArg, ev |-> <<>>,
    snt |-> sent, w |-> wire, failAt |-> failAt, resp |-> resp ]

\* the value carried by a 0x04 frame: the two 7-bit data bytes
FrameValue(f) == f[5] + (128 * f[6])

\* a frame has gone out: a 0x04 frame is the latest value sent to its
\* channel, a 0x10 or 0x13 frame is one more query
Sent(s, data) ==
  [s EXCEPT !.snt = IF data[3] = 4 THEN [@ EXCEPT ![data[4]] = FrameValue(data)] ELSE @,
            !.w.q10 = IF data[3] = 16 THEN @ + 1 ELSE @,
            !.w.q13 = IF data[3] = 19 THEN @ + 1 ELSE @]

\* one serial call: a write that went out ("w", with the opcode of the frame),
\* a read that returned a byte ("r"), or a write or read that raised
Ev(k, op) == [ k |-> k, op |-> op ]

\* serial.Serial.write: raises on a closed port or a transport failure,
\* otherwise the whole byte string goes out in one call
usbWrite(s, data) ==
  IF s.err # "none" THEN s
  ELSE IF closed
       THEN [s EXCEPT !.io = @ + 1, !.err = "PortNotOpenError",
                      !.ev = Append(@, Ev("wx", NoArg))]
  ELSE IF s.failAt = s.io + 1
       THEN [s EXCEPT !.io = @ + 1, !.err = "SerialException",
                      !.ev = Append(@, Ev("wx", NoArg))]
  ELSE Sent([s EXCEPT !.io = @ + 1, !.out = Append(@, data),
                      !.ev = Append(@, Ev("w", data[3]))], data)

\* serial.Serial.read(): one byte, blocking; raises on a closed port or a
\* transport failure
usbRead(s) ==
  IF s.err # "none" THEN s
  ELSE IF closed
       THEN [s EXCEPT !.io = @ + 1, !.err = "PortNotOpenError",
                      !.ev = Append(@, Ev("rx", NoArg)), !.w.rdErr = @ + 1]
  ELSE IF s.failAt = s.io + 1
       THEN [s EXCEPT !.io = @ + 1, !.err = "SerialException",
                      !.ev = Append(@, Ev("rx", NoArg)), !.w.rdErr = @ + 1]
  ELSE [s EXCEPT !.io = @ + 1, !.rd = Append(@, s.resp[Len(s.rd) + 1]),
                 !.ret = s.resp[Len(s.rd) + 1],
                 !.ev = Append(@, Ev("r", NoArg)), !.w.rd = @ + 1]

\* chr(x) / bytes(cmdStr,'latin-1'): a code point above 255 cannot be encoded
Encodable(cmd) == \A i \in 1 .. Len(cmd) : cmd[i] \in 0 .. 255

sendCmd(s, cmd) ==
  IF s.err # "none" THEN s
  ELSE IF ~Encodable(PololuCmd \o cmd) THEN [s EXCEPT !.err = "ValueError"]
  ELSE usbWrite(s, PololuCmd \o cmd)

\* mutant: the stored target is brought into the new range at once
setRangeReclamp(s, chan, min, max) ==
  IF s.err # "none" THEN s
  ELSE [s EXCEPT !.Mn[chan] = min, !.Mx[chan] = max,
                 !.T[chan] = IF max > 0 /\ @ > max THEN max
                             ELSE IF min > 0 /\ @ < min THEN min ELSE @]

setRange(s, chan, min, max) ==
  IF s.err # "none" THEN s
  ELSE [s EXCEPT !.Mn[chan] = min, !.Mx[chan] = max]

getMin(s, chan) == IF s.err # "none" THEN s ELSE [s EXCEPT !.ret = s.Mn[chan]]

getMax(s, chan) == IF s.err # "none" THEN s ELSE [s EXCEPT !.ret = s.Mx[chan]]

\* mutant: the comparison with Min reversed
ForceMinReversed(mn, target) == IF mn > 0 /\ target > mn THEN mn ELSE target

\* if Min is defined and Target is below, force to Min
ForceMin(mn, target) == IF mn > 0 /\ target < mn THEN mn ELSE target

\* mutant: Max applied although it is 0 (not defined)
ForceMaxAlways(mx, target) == IF target > mx THEN mx ELSE target

\* if Max is defined and Target is above, force to Max
ForceMax(mx, target) == IF mx > 0 /\ target > mx THEN mx ELSE target

\* mutant: the two data bytes in the other order
setTargetCmdMsbFirst(chan, target) == << 4, chan, Msb(target), Lsb(target) >>

setTargetCmd(chan, target) == << 4, chan, Lsb(target), Msb(target) >>

\* mutant: the target recorded before the outcome of the write is known
RecordTargetAlways(s, chan, target) == [s EXCEPT !.T[chan] = target]

\* Record Target value, once sendCmd has returned
RecordTarget(s, chan, target) ==
  IF s.err # "none" THEN s ELSE [s EXCEPT !.T[chan] = target]

\* mutant: Max applied before Min
setTargetMaxFirst(s, chan, target) ==
  IF s.err # "none" THEN s
  ELSE LET t == ForceMin(s.Mn[chan], ForceMax(s.Mx[chan], target))
       IN RecordTarget(sendCmd(s, setTargetCmd(chan, t)), chan, t)

setTarget(s, chan, target) ==
  IF s.err # "none" THEN s
  ELSE LET t == ForceMax(s.Mx[chan], ForceMin(s.Mn[chan], target))
       IN RecordTarget(sendCmd(s, setTargetCmd(chan, t)), chan, t)

setSpeedCmd(chan, speed) == << 7, chan, Lsb(speed), Msb(speed) >>

setSpeed(s, chan, speed) == sendCmd(s, setSpeedCmd(chan, speed))

\* mutant: the acceleration sent as one byte, the upper byte left 0
setAccelCmdOneByte(chan, accel) == << 9, chan, Lsb(accel), 0 >>

setAccelCmd(chan, accel) == << 9, chan, Lsb(accel), Msb(accel) >>

setAccel(s, chan, accel) == sendCmd(s, setAccelCmd(chan, accel))

getPositionCmd(chan) == << 16, chan >>

\* mutant: only the low byte of the position is read
getPositionOneRead(s, chan) ==
  LET s1 == usbRead(sendCmd(s, getPositionCmd(chan)))
  IN IF s1.err # "none" THEN s1
     ELSE [s1 EXCEPT !.ret = Decode(s1.ret, 0)]

\* mutant: the position read is recorded as the channel's target
getPositionStoring(s, chan) ==
  LET s1 == sendCmd(s, getPositionCmd(chan))
      s2 == usbRead(s1)
      s3 == usbRead(s2)
  IN IF s3.err # "none" THEN s3
     ELSE [s3 EXCEPT !.ret = Decode(s2.ret, s3.ret),
                     !.T[chan] = Decode(s2.ret, s3.ret)]

getPosition(s, chan) ==
  LET s1 == sendCmd(s, getPositionCmd(chan))
      s2 == usbRead(s1)
      s3 == usbRead(s2)
  IN IF s3.err # "none" THEN s3
     ELSE [s3 EXCEPT !.ret = Decode(s2.ret, s3.ret)]

\* mutant: moving only while the position is below the target
isMovingBelow(s, chan) ==
  IF s.err # "none" THEN s
  ELSE IF s.T[chan] > 0
       THEN LET s1 == getPosition(s, chan)
            IN IF s1.err # "none" THEN s1
               ELSE [s1 EXCEPT !.ret = (s1.ret < s.T[chan])]
       ELSE [s EXCEPT !.ret = FALSE]

\* mutant: the position is queried although the target is 0
isMovingAlwaysQuery(s, chan) ==
  IF s.err # "none" THEN s
  ELSE LET s1 == getPosition(s, chan)
       IN IF s1.err # "none" THEN s1
          ELSE [s1 EXCEPT !.ret = (s1.ret # s.T[chan])]

isMoving(s, chan) ==
  IF s.err # "none" THEN s
  ELSE IF s.T[chan] > 0
       THEN LET s1 == getPosition(s, chan)
            IN IF s1.err # "none" THEN s1
               ELSE [s1 EXCEPT !.ret = (s1.ret # s.T[chan])]
       ELSE [s EXCEPT !.ret = FALSE]

\* self.usb.read() == chr(0): under Python 2 read() returns a str and the
\* comparison is by value; under Python 3 read() returns bytes, which never
\* compare equal to the str chr(0)
ReadIsChr0(byte) == PY2 /\ byte = 0

getMovingStateCmd == << 19 >>

getMovingState(s) ==
  LET s1 == usbRead(sendCmd(s, getMovingStateCmd))
  IN IF s1.err # "none" THEN s1
     ELSE [s1 EXCEPT !.ret = ~ReadIsChr0(s1.ret)]

\* mutant: the 0x28 form of the command, which takes a parameter
runScriptSubParamCmd(subNumber) == << 40, subNumber, 0, 0 >>

runScriptSubCmd(subNumber) == << 39, subNumber >>

runScriptSub(s, subNumber) == sendCmd(s, runScriptSubCmd(subNumber))

stopScriptCmd == << 36 >>

stopScript(s) == sendCmd(s, stopScriptCmd)

\* ------------------------------------------------------------- gestures
\* mutant: the step is also taken at the boundary itself
headStepUpInclusive(s, chan) ==
  LET s1 == getPosition(setSpeed(setRange(s, chan, 4000, 8000), chan, 1000), chan)
  IN IF s1.err # "none" THEN s1
     ELSE IF s1.ret <= 8000
          THEN LET s2 == getPosition(s1, chan)
               IN IF s2.err # "none" THEN s2
                  ELSE setTarget(s2, chan, s2.ret + 1000)
          ELSE s1

\* the shared shape of rotateHeadRight and tiltHeadUp: step up while the
\* position read is below 8000
headStepUp(s, chan) ==
  LET s1 == getPosition(setSpeed(setRange(s, chan, 4000, 8000), chan, 1000), chan)
  IN IF s1.err # "none" THEN s1
     ELSE IF s1.ret < 8000
          THEN LET s2 == getPosition(s1, chan)
               IN IF s2.err # "none" THEN s2
                  ELSE setTarget(s2, chan, s2.ret + 1000)
          ELSE s1

\* the shared shape of rotateHeadLeft and tiltHeadDown: step down while the
\* position read is above 4000
headStepDown(s, chan) ==
  LET s1 == getPosition(setSpeed(setRange(s, chan, 4000, 8000), chan, 1000), chan)
  IN IF s1.err # "none" THEN s1
     ELSE IF s1.ret > 4000
          THEN LET s2 == getPosition(s1, chan)
               IN IF s2.err # "none" THEN s2
                  ELSE setTarget(s2, chan, s2.ret - 1000)
          ELSE s1

rotateHeadRight(s) == headStepUp(s, 3)

rotateHeadLeft(s) == headStepDown(s, 3)

tiltHeadUp(s) == headStepUp(s, 4)

tiltHeadDown(s) == headStepDown(s, 4)

turnRight(s) == setTarget(setSpeed(setRange(s, 2, 5000, 7000), 2, 1000), 2, 7000)

turnLeft(s) == setTarget(setSpeed(setRange(s, 2, 5000, 7000), 2, 1000), 2, 5000)

\* mutant: the range asserted after the target instead of before it
moveForwardRangeLast(s) == setRange(setTarget(setSpeed(s, 1, 1000), 1, 6700), 1, 5000, 7000)

moveForward(s) == setTarget(setSpeed(setRange(s, 1, 5000, 7000), 1, 1000), 1, 6700)

moveForwarder(s) == setTarget(setSpeed(setRange(s, 1, 5000, 7000), 1, 1000), 1, 6800)

moveForwardest(s) == setTarget(setSpeed(setRange(s, 1, 5000, 7000), 1, 1000), 1, 6900)

moveBackward(s) == setTarget(setSpeed(setRange(s, 1, 5000, 7000), 1, 1000), 1, 5400)

moveBackwarder(s) == setTarget(setSpeed(setRange(s, 1, 5000, 7000), 1, 1000), 1, 5300)

moveBackwardest(s) == setTarget(setSpeed(setRange(s, 1, 5000, 7000), 1, 1000), 1, 5200)

stopMotion(s) == setTarget(setSpeed(setRange(s, 1, 5000, 7000), 1, 1000), 1, 6000)

\* setSpeed(chan,1000) then setTarget(chan,6000)
center(s, chan) == setTarget(setSpeed(s, chan, 1000), chan, 6000)

\* mutant: the twist channel left out
resetAllNoTwist(s) == center(center(center(center(s, 3), 4), 2), 1)

resetAll(s) == center(center(center(center(center(s, 3), 4), 0), 2), 1)

\* ---------------------------------------------------------------- state
IdleRt == [ phase |-> "idle", v |-> 0, lsb |-> 0, msb |-> 0, out |-> 0 ]

NoCall == [ op |-> "init", chan |-> NoArg, arg |-> NoArg, arg2 |-> NoArg,
            out |-> <<>>, rd |-> <<>>, io |-> 0, ret |-> NoArg, err |-> "none",
            ev |-> <<>> ]

\* what has crossed the serial port since construction: response bytes
\* consumed (rd), 0x10 and 0x13 frames written (q10, q13), reads that raised
\* (rdErr)
NoWire == [ rd |-> 0, q10 |-> 0, q13 |-> 0, rdErr |-> 0 ]

\* mutant: the targets start at the servo center instead of 0
InitCentered ==
  /\ Targets = [c \in Chans |-> 6000]
  /\ Mins = [c \in Chans |-> 0]
  /\ Maxs = [c \in Chans |-> 0]
  /\ \E device \in DeviceInputs : PololuCmd = << 170, device >>
  /\ PY2 \in BOOLEAN
  /\ closed = FALSE
  /\ last = NoCall
  /\ nops = 0
  /\ rt = IdleRt
  /\ sent = [c \in Chans |-> NoArg]
  /\ wire = NoWire

Init ==
  /\ Targets = [c \in Chans |-> 0]
  /\ Mins = [c \in Chans |-> 0]
  /\ Maxs = [c \in Chans |-> 0]
  /\ \E device \in DeviceInputs : PololuCmd = << 170, device >>
  /\ PY2 \in BOOLEAN
  /\ closed = FALSE
  /\ last = NoCall
  /\ nops = 0
  /\ rt = IdleRt
  /\ sent = [c \in Chans |-> NoArg]
  /\ wire = NoWire

\* the method returned (or raised): its effects become the controller state
Commit(s, op, chan, arg, arg2) ==
  /\ nops < MaxOps
  /\ Targets' = s.T
  /\ Mins' = s.Mn
  /\ Maxs' = s.Mx
  /\ last' = [ op |-> op, chan |-> chan, arg |-> arg, arg2 |-> arg2,
               out |-> s.out, rd |-> s.rd, io |-> s.io, ret |-> s.ret,
               err |-> s.err, ev |-> s.ev ]
  /\ sent' = s.snt
  /\ wire' = s.w
  /\ nops' = nops + 1
  /\ UNCHANGED <<PololuCmd, PY2, closed, rt>>

FailInputs(n) == 0 .. n

\* environments of a call that reads one position: every position with no
\* failure, and a failure at each of its n serial calls
PosEnvs(n) ==
  { <<0, PosBytes(p)>> : p \in PosInputs } \cup { <<f, PosBytes(7500)>> : f \in 1 .. n }

\* environments of a call that reads two positions
PosPosEnvs(n) ==
  { <<0, PosBytes(pq[1]) \o PosBytes(pq[2])>> : pq \in PosPairInputs }
    \cup { <<f, PosBytes(7500) \o PosBytes(7500)>> : f \in 1 .. n }

\* environments of a call that reads one byte
ByteEnvs(n) == { <<0, <<b>> >> : b \in ByteInputs } \cup { <<f, <<0>> >> : f \in 1 .. n }

Close ==
  /\ nops < MaxOps
  /\ closed' = TRUE
  /\ last' = [NoCall EXCEPT !.op = "close"]
  /\ nops' = nops + 1
  /\ UNCHANGED <<Targets, Mins, Maxs, PololuCmd, PY2, rt, sent, wire>>

SetRange ==
  \E chan \in ChanInputs, r \in RangeInputs :
    Commit(setRange(Start(0, <<>>), chan, r[1], r[2]), "setRange", chan, r[1], r[2])

GetMin ==
  \E chan \in ChanInputs :
    Commit(getMin(Start(0, <<>>), chan), "getMin", chan, NoArg, NoArg)

GetMax ==
  \E chan \in ChanInputs :
    Commit(getMax(Start(0, <<>>), chan), "getMax", chan, NoArg, NoArg)

SetTarget ==
  \E chan \in ChanInputs, target \in TargetInputs, f \in FailInputs(1) :
    Commit(setTarget(Start(f, <<>>), chan, target), "setTarget", chan, target, NoArg)

SetSpeed ==
  \E chan \in ChanInputs, speed \in SpeedInputs, f \in FailInputs(1) :
    Commit(setSpeed(Start(f, <<>>), chan, speed), "setSpeed", chan, speed, NoArg)

SetAccel ==
  \E chan \in ChanInputs, accel \in AccelInputs, f \in FailInputs(1) :
    Commit(setAccel(Start(f, <<>>), chan, accel), "setAccel", chan, accel, NoArg)

GetPosition ==
  \E chan \in ChanInputs, e \in PosEnvs(3) :
    Commit(getPosition(Start(e[1], e[2]), chan), "getPosition", chan, NoArg, NoArg)

IsMoving ==
  \E chan \in ChanInputs, e \in PosEnvs(3) :
    Commit(isMoving(Start(e[1], e[2]), chan), "isMoving", chan, NoArg, NoArg)

GetMovingState ==
  \E e \in ByteEnvs(2) :
    Commit(getMovingState(Start(e[1], e[2])), "getMovingState", NoArg, NoArg, NoArg)

RunScriptSub ==
  \E subNumber \in SubInputs, f \in FailInputs(1) :
    Commit(runScriptSub(Start(f, <<>>), subNumber), "runScriptSub", NoArg, subNumber, NoArg)

StopScript ==
  \E f \in FailInputs(1) :
    Commit(stopScript(Start(f, <<>>)), "stopScript", NoArg, NoArg, NoArg)

RotateHeadRight ==
  \E e \in PosPosEnvs(8) :
    Commit(rotateHeadRight(Start(e[1], e[2])), "rotateHeadRight", 3, NoArg, NoArg)

RotateHeadLeft ==
  \E e \in PosPosEnvs(8) :
    Commit(rotateHeadLeft(Start(e[1], e[2])), "rotateHeadLeft", 3, NoArg, NoArg)

TiltHeadUp ==
  \E e \in PosPosEnvs(8) :
    Commit(tiltHeadUp(Start(e[1], e[2])), "tiltHeadUp", 4, NoArg, NoArg)

TiltHeadDown ==
  \E e \in PosPosEnvs(8) :
    Commit(tiltHeadDown(Start(e[1], e[2])), "tiltHeadDown", 4, NoArg, NoArg)

TurnRight ==
  \E f \in FailInputs(2) : Commit(turnRight(Start(f, <<>>)), "turnRight", 2, NoArg, NoArg)

TurnLeft ==
  \E f \in FailInputs(2) : Commit(turnLeft(Start(f, <<>>)), "turnLeft", 2, NoArg, NoArg)

MoveForward ==
  \E f \in FailInputs(2) : Commit(moveForward(Start(f, <<>>)), "moveForward", 1, NoArg, NoArg)

MoveForwarder ==
  \E f \in FailInputs(2) : Commit(moveForwarder(Start(f, <<>>)), "moveForwarder", 1, NoArg, NoArg)

MoveForwardest ==
  \E f \in FailInputs(2) : Commit(moveForwardest(Start(f, <<>>)), "moveForwardest", 1, NoArg, NoArg)

MoveBackward ==
  \E f \in FailInputs(2) : Commit(moveBackward(Start(f, <<>>)), "moveBackward", 1, NoArg, NoArg)

MoveBackwarder ==
  \E f \in FailInputs(2) : Commit(moveBackwarder(Start(f, <<>>)), "moveBackwarder", 1, NoArg, NoArg)

MoveBackwardest ==
  \E f \in FailInputs(2) : Commit(moveBackwardest(Start(f, <<>>)), "moveBackwardest", 1, NoArg, NoArg)

StopMotion ==
  \E f \in FailInputs(2) : Commit(stopMotion(Start(f, <<>>)), "stopMotion", 1, NoArg, NoArg)

ResetAll ==
  \E f \in FailInputs(10) : Commit(resetAll(Start(f, <<>>)), "resetAll", NoArg, NoArg, NoArg)

Next ==
  \/ Close
  \/ SetRange
  \/ GetMin
  \/ GetMax
  \/ SetTarget
  \/ SetSpeed
  \/ SetAccel
  \/ GetPosition
  \/ IsMoving
  \/ GetMovingState
  \/ RunScriptSub
  \/ StopScript
  \/ RotateHeadRight
  \/ RotateHeadLeft
  \/ TiltHeadUp
  \/ TiltHeadDown
  \/ TurnRight
  \/ TurnLeft
  \/ MoveForward
  \/ MoveForwarder
  \/ MoveForwardest
  \/ MoveBackward
  \/ MoveBackwarder
  \/ MoveBackwardest
  \/ StopMotion
  \/ ResetAll

Spec == Init /\ [][Next]_vars

\* ------------------------------------------- the 14-bit encode/decode rules
\* A value is split with the encode rule of setTarget and the two bytes are
\* recombined with the decode rule of getPosition.
InitCodec ==
  /\ Targets = [c \in Chans |-> 0]
  /\ Mins = [c \in Chans |-> 0]
  /\ Maxs = [c \in Chans |-> 0]
  /\ PololuCmd = << 170, DefaultDevice >>
  /\ PY2 = FALSE
  /\ closed = FALSE
  /\ last = NoCall
  /\ nops = 0
  /\ sent = [c \in Chans |-> NoArg]
  /\ wire = NoWire
  /\ \E v \in 0 .. CodecMax : rt = [IdleRt EXCEPT !.phase = "value", !.v = v]

CodecEncode ==
  /\ rt.phase = "value"
  /\ rt' = [rt EXCEPT !.phase = "encoded", !.lsb = Lsb(rt.v), !.msb = Msb(rt.v)]
  /\ UNCHANGED <<Targets, Mins, Maxs, PololuCmd, PY2, closed, last, nops, sent, wire>>

CodecDecode ==
  /\ rt.phase = "encoded"
  /\ rt' = [rt EXCEPT !.phase = "decoded", !.out = Decode(rt.lsb, rt.msb)]
  /\ UNCHANGED <<Targets, Mins, Maxs, PololuCmd, PY2, closed, last, nops, sent, wire>>

NextCodec ==
  \/ CodecEncode
  \/ CodecDecode

SpecCodec == InitCodec /\ [][NextCodec]_vars

\* ------------------------------------------------------------- properties
\* the frame setTarget writes for a value
TargetFrame(chan, v) == << 170, PololuCmd[2], 4, chan, v % 128, (v \div 128) % 128 >>

\* the last call was a setTarget that returned normally
SetTargetDone == last.op = "setTarget" /\ last.err = "none"

\* C1: with min = max = 0 and a target in [0,16383], a setTarget that returns
\* has written exactly the one frame [0xAA, device, 0x04, chan, target & 0x7F,
\* (target >> 7) & 0x7F] and the tracked target of the channel is the target
\* unmodified.
C1_UnclampedTarget ==
  ( /\ SetTargetDone
    /\ last.arg \in 0 .. Max14
    /\ Mins[last.chan] = 0
    /\ Maxs[last.chan] = 0 )
  => /\ last.out = << TargetFrame(last.chan, last.arg) >>
     /\ Targets[last.chan] = last.arg

C1_Witness ==
  /\ SetTargetDone
  /\ last.arg = 16383
  /\ Mins[last.chan] = 0
  /\ Maxs[last.chan] = 0
  /\ last.out = << << 170, 12, 4, last.chan, 127, 127 >> >>
  /\ Targets[last.chan] = 16383

\* C2: with max > 0 and target > max, setTarget sends the encoding of max and
\* stores max, also when min > max (the max-clamp comes last).
C2_ClampToMax ==
  ( /\ SetTargetDone
    /\ Maxs[last.chan] > 0
    /\ last.arg > Maxs[last.chan] )
  => /\ last.out = << TargetFrame(last.chan, Maxs[last.chan]) >>
     /\ Targets[last.chan] = Maxs[last.chan]

C2_Witness ==
  /\ SetTargetDone
  /\ Maxs[last.chan] > 0
  /\ Mins[last.chan] > Maxs[last.chan]
  /\ last.arg > Maxs[last.chan]
  /\ last.arg < Mins[last.chan]
  /\ Targets[last.chan] = Maxs[last.chan]

\* C3 as stated: with min > 0 and target < min, whatever max is, setTarget
\* sends and stores min.
C3_ClampToMinAnyMax ==
  ( /\ SetTargetDone
    /\ Mins[last.chan] > 0
    /\ last.arg < Mins[last.chan] )
  => /\ last.out = << TargetFrame(last.chan, Mins[last.chan]) >>
     /\ Targets[last.chan] = Mins[last.chan]

\* C3 amended: with min > 0 and target < min, setTarget sends and stores min
\* when max is 0 or max >= min, and max when 0 < max < min.
C3_ClampToMin ==
  ( /\ SetTargetDone
    /\ Mins[last.chan] > 0
    /\ last.arg < Mins[last.chan] )
  => LET v == IF Maxs[last.chan] > 0 /\ Maxs[last.chan] < Mins[last.chan]
              THEN Maxs[last.chan] ELSE Mins[last.chan]
     IN /\ last.out = << TargetFrame(last.chan, v) >>
        /\ Targets[last.chan] = v

C3_Witness ==
  /\ SetTargetDone
  /\ Mins[last.chan] = 5000
  /\ Maxs[last.chan] = 7000
  /\ last.arg = 0
  /\ Targets[last.chan] = 5000

\* C4 as stated: for every v in [0,16383], encoding v and decoding the two
\* bytes yields v.
C4_RoundTrip ==
  (rt.phase = "decoded" /\ rt.v <= Max14) => rt.out = rt.v

\* C4 amended: for every v in [0,16383], encoding v and decoding the two
\* bytes yields v + 128 * (v >> 7), which is v exactly when v <= 127.
C4_RoundTripLowOnly ==
  (rt.phase = "decoded" /\ rt.v <= Max14)
  => /\ rt.out = rt.v + (128 * (rt.v \div 128))
     /\ (rt.out = rt.v) <=> (rt.v <= 127)

C4_Witness ==
  /\ rt.phase = "decoded"
  /\ rt.v = 6900
  /\ rt.lsb = 116
  /\ rt.msb = 53
  /\ rt.out = 13684

\* a 0x04 frame for the channel is among the frames a call wrote
WroteTargetFrame(out, c) ==
  \E i \in 1 .. Len(out) : out[i][3] = 4 /\ out[i][4] = c

\* C5: a channel's tracked target changes only in a call that wrote a
\* setTarget frame for that channel; getPosition, isMoving, getMovingState,
\* setSpeed, setAccel, setRange, getMin, getMax, runScriptSub and stopScript
\* leave every tracked target unchanged.
C5_TargetOnlyBySetTarget ==
  [][ /\ \A c \in Chans :
           Targets'[c] # Targets[c] => WroteTargetFrame(last'.out, c)
      /\ last'.op \in { "getPosition", "isMoving", "getMovingState", "setSpeed",
                        "setAccel", "setRange", "getMin", "getMax",
                        "runScriptSub", "stopScript" }
           => Targets' = Targets ]_vars

C5_Witness ==
  /\ last.op = "getPosition"
  /\ last.err = "none"
  /\ Targets[last.chan] > 0
  /\ last.ret # Targets[last.chan]

\* C6: when the write of setTarget raises, the error reaches the caller,
\* Targets, Mins and Maxs are as before the call, and no second write is
\* attempted.
C6_FailedWriteNoMutation ==
  [][ (last'.op = "setTarget" /\ last'.err # "none")
      => /\ Targets' = Targets
         /\ Mins' = Mins
         /\ Maxs' = Maxs
         /\ last'.out = <<>>
         /\ last'.io = 1 ]_vars

C6_Witness ==
  /\ last.op = "setTarget"
  /\ last.err = "SerialException"
  /\ last.arg # Targets[last.chan]
  /\ last.arg > 0
  /\ Mins[last.chan] = 0
  /\ Maxs[last.chan] = 0

\* C7: after close(), every further operation fails, writes nothing and
\* never succeeds silently.
C7_AfterCloseFails ==
  (closed /\ last.op # "close") => (last.err # "none" /\ last.out = <<>>)

\* C8: isMoving(chan) returns false whenever the tracked target of the
\* channel is 0, whatever position the device would report.
C8_NotMovingAtZeroTarget ==
  (last.op = "isMoving" /\ Targets[last.chan] = 0)
  => (last.err = "none" /\ last.ret = FALSE)

C8_Witness ==
  /\ last.op = "isMoving"
  /\ Targets[last.chan] = 0
  /\ last.err = "none"
  /\ last.ret = FALSE
  /\ ~closed

\* C9: getMovingState() writes the 0x13 frame, reads exactly one byte and
\* returns false when the byte is 0 and true when it is nonzero.
C9_MovingStateByte ==
  (last.op = "getMovingState" /\ last.err = "none")
  => /\ last.out = << << 170, PololuCmd[2], 19 >> >>
     /\ Len(last.rd) = 1
     /\ last.ret = (last.rd[1] # 0)

\* the shape of a frame: lead-in, device number, opcode and the number of
\* data bytes of the opcode
FrameOK(f) ==
  /\ Len(f) >= 3
  /\ \A i \in 1 .. Len(f) : f[i] \in 0 .. 255
  /\ f[1] = 170
  /\ f[2] = PololuCmd[2]
  /\ \/ f[3] \in {4, 7, 9} /\ Len(f) = 6
     \/ f[3] \in {16, 39} /\ Len(f) = 4
     \/ f[3] \in {19, 36} /\ Len(f) = 3

\* C10: every frame written is one write of the form [0xAA, device, opcode,
\* data...] with 3 data bytes for 0x04, 0x07 and 0x09, 1 for 0x10 and 0x27,
\* none for 0x13 and 0x24, and no other opcode.
C10_FrameShape ==
  \A i \in 1 .. Len(last.out) : FrameOK(last.out[i])

C10_Witness ==
  /\ last.op = "resetAll"
  /\ last.err = "none"
  /\ Len(last.out) = 10
  /\ last.out[1] = << 170, 12, 7, 3, 104, 7 >>
  /\ last.out[10] = << 170, 12, 4, 1, 112, 46 >>

\* the serial calls of one method come in the order of the protocol: the
\* two reads of a position right after its 0x10 frame, the one read of the
\* moving state right after its 0x13 frame, and no read anywhere else
IsRead(e) == e.k \in {"r", "rx"}

ReadsFollowQueries(ev) ==
  \A i \in 1 .. Len(ev) :
     /\ (ev[i].k = "w" /\ ev[i].op = 16)
          => \A j \in (i + 1) .. (i + 2) : j <= Len(ev) => IsRead(ev[j])
     /\ (ev[i].k = "w" /\ ev[i].op = 19)
          => (i + 1 <= Len(ev) => IsRead(ev[i + 1]))
     /\ IsRead(ev[i])
          => \/ i > 1 /\ ev[i - 1].k = "w" /\ ev[i - 1].op \in {16, 19}
             \/ i > 2 /\ ev[i - 1].k = "r" /\ ev[i - 2].k = "w" /\ ev[i - 2].op = 16

\* a method that returned has read every byte its queries call for
ReadsComplete(ev) ==
  \A i \in 1 .. Len(ev) :
     /\ (ev[i].k = "w" /\ ev[i].op = 16)
          => (i + 2 <= Len(ev) /\ ev[i + 1].k = "r" /\ ev[i + 2].k = "r")
     /\ (ev[i].k = "w" /\ ev[i].op = 19)
          => (i + 1 <= Len(ev) /\ ev[i + 1].k = "r")

\* the primitive operations that talk to the device
WirePrimitives ==
  { "setTarget", "setSpeed", "setAccel", "getPosition", "getMovingState",
    "runScriptSub", "stopScript" }

\* C11 as stated: after any sequence of operations the number of response
\* bytes consumed is 2 times the number of 0x10 frames plus the number of
\* 0x13 frames written.
C11_ReadCount == wire.rd = (2 * wire.q10) + wire.q13

\* C11 amended: a primitive operation that returns has made exactly one frame
\* write; the reads of a query come right after its frame and before any
\* further frame, 2 for 0x10 and 1 for 0x13 when the method returns; and
\* after any sequence of operations in which no read raised, the number of
\* response bytes consumed is 2 times the number of 0x10 frames plus the
\* number of 0x13 frames written.
C11_ReadCountNoReadError ==
  /\ wire.rdErr = 0 => wire.rd = (2 * wire.q10) + wire.q13
  /\ ReadsFollowQueries(last.ev)
  /\ last.err = "none" => ReadsComplete(last.ev)
  /\ (last.op \in WirePrimitives /\ last.err = "none") => Len(last.out) = 1

C11_Witness ==
  /\ wire.rdErr = 0
  /\ wire.q10 = 1
  /\ wire.q13 = 1
  /\ wire.rd = 3
  /\ last.op = "getMovingState"
  /\ last.err = "none"

\* C12 as stated: for accel in 0..255 the frame of setAccel is
\* [0xAA, device, 0x09, chan, lsb, msb] with msb = 0.
C12_AccelUpperByteZero ==
  (last.op = "setAccel" /\ last.err = "none" /\ last.arg \in 0 .. 255)
  => /\ Len(last.out) = 1
     /\ SubSeq(last.out[1], 1, 4) = << 170, PololuCmd[2], 9, last.chan >>
     /\ Len(last.out[1]) = 6
     /\ last.out[1][6] = 0

\* C12 amended: for accel in 0..255 the frame of setAccel is
\* [0xAA, device, 0x09, chan, accel & 0x7F, msb] with msb = 0 for accel in
\* 0..127 and msb = 1 for accel in 128..255.
C12_AccelUpperByte ==
  (last.op = "setAccel" /\ last.err = "none" /\ last.arg \in 0 .. 255)
  => last.out = << << 170, PololuCmd[2], 9, last.chan, last.arg % 128,
                      IF last.arg >= 128 THEN 1 ELSE 0 >> >>

C12_Witness ==
  /\ last.op = "setAccel"
  /\ last.err = "none"
  /\ last.arg = 255
  /\ last.out = << << 170, 12, 9, last.chan, 127, 1 >> >>

\* the relative head gestures, by direction of travel
HeadUpOps == { "rotateHeadRight", "tiltHeadUp" }

HeadDownOps == { "rotateHeadLeft", "tiltHeadDown" }

\* the n-th position a call read: its low byte, then its high byte
PosRead(rd, n) == rd[(2 * n) - 1] + (256 * rd[2 * n])

\* a value brought into [4000,8000]
Into4000To8000(x) == IF x < 4000 THEN 4000 ELSE IF x > 8000 THEN 8000 ELSE x

\* C13: a relative head gesture issues a setTarget frame only when the
\* position it read first is strictly inside the boundary in the direction of
\* travel (< 8000 for right/up, > 4000 for left/down); the value sent and
\* stored is the position it read next, stepped by 1000 and clamped to
\* [4000,8000], so the range is never exceeded.
C13_HeadStepWithinRange ==
  (last.op \in (HeadUpOps \cup HeadDownOps) /\ WroteTargetFrame(last.out, last.chan))
  => /\ last.chan = (IF last.op \in {"rotateHeadRight", "rotateHeadLeft"} THEN 3 ELSE 4)
     /\ Len(last.rd) = 4
     /\ last.op \in HeadUpOps => PosRead(last.rd, 1) < 8000
     /\ last.op \in HeadDownOps => PosRead(last.rd, 1) > 4000
     /\ LET step == IF last.op \in HeadUpOps THEN 1000 ELSE -1000
            v == Into4000To8000(PosRead(last.rd, 2) + step)
        IN /\ last.out[Len(last.out)] = TargetFrame(last.chan, v)
           /\ \A i \in 1 .. (Len(last.out) - 1) : last.out[i][3] # 4
           /\ Targets[last.chan] = v
           /\ sent[last.chan] = v
     /\ Targets[last.chan] \in 4000 .. 8000

C13_Witness ==
  /\ last.op = "rotateHeadRight"
  /\ last.err = "none"
  /\ last.rd = PosBytes(7500) \o PosBytes(8000)
  /\ WroteTargetFrame(last.out, 3)
  /\ Targets[3] = 8000

\* the frame setSpeed writes for a value
SpeedFrame(chan, v) == << 170, PololuCmd[2], 7, chan, v % 128, (v \div 128) % 128 >>

\* the channels resetAll centers, in its order
ResetChans == << 3, 4, 0, 2, 1 >>

\* a value as a channel's range leaves it: raised to a positive min, then
\* lowered to a positive max
Within(mn, mx, v) ==
  LET a == IF mn > 0 /\ v < mn THEN mn ELSE v
  IN IF mx > 0 /\ a > mx THEN mx ELSE a

\* the frames of a resetAll that sends value[c] to each channel c
ResetFrames(value) ==
  [ i \in 1 .. 10 |->
      LET c == ResetChans[(i + 1) \div 2]
      IN IF i % 2 = 1 THEN SpeedFrame(c, 1000) ELSE TargetFrame(c, value[c]) ]

\* C14 as stated: after resetAll() completes in any reachable state, a speed
\* frame 1000 and a target frame 6000 have been written for each of channels
\* 3, 4, 0, 2, 1 and the tracked target of each is 6000.
C14_ResetAllCenters ==
  (last.op = "resetAll" /\ last.err = "none")
  => /\ last.out = ResetFrames([c \in Chans |-> 6000])
     /\ \A i \in 1 .. 5 : Targets[ResetChans[i]] = 6000

\* C14 amended: after resetAll() completes, a speed frame 1000 and a target
\* frame have been written for each of channels 3, 4, 0, 2, 1, in that order;
\* the target frame carries 6000 clamped to the channel's range (6000 when
\* the range is unset or contains 6000) and the tracked target is that value.
C14_ResetAllCentersWithinRange ==
  (last.op = "resetAll" /\ last.err = "none")
  => /\ last.out = ResetFrames([c \in Chans |-> Within(Mins[c], Maxs[c], 6000)])
     /\ \A i \in 1 .. 5 :
          Targets[ResetChans[i]] = Within(Mins[ResetChans[i]], Maxs[ResetChans[i]], 6000)
     /\ \A i \in 1 .. 5 :
          (Mins[ResetChans[i]] <= 6000 /\ Maxs[ResetChans[i]] \in {0} \cup (6000 .. 16383))
            => Targets[ResetChans[i]] = 6000

C14_Witness ==
  /\ last.op = "resetAll"
  /\ last.err = "none"
  /\ Mins[1] = 6500
  /\ Targets[1] = 6500
  /\ Targets[3] = 6000
  /\ Targets[0] = 6000
  /\ Len(last.out) = 10

\* no setTarget has completed on the channel since construction: no 0x04
\* frame for it has gone out
NeverCommanded(c) == sent[c] = NoArg

\* C15 as stated: a channel's tracked target is 0 exactly when no setTarget
\* has ever completed on that channel.
C15_ZeroIffNeverCommanded ==
  \A c \in Chans : (Targets[c] = 0) <=> NeverCommanded(c)

\* C15 amended: all targets are 0 after construction and a channel on which
\* no setTarget has completed has target 0; a tracked target of 0 means the
\* channel was never commanded or the last setTarget completed on it sent
\* the value 0.
C15_ZeroWhenNeverCommanded ==
  /\ nops = 0 => \A c \in Chans : Targets[c] = 0
  /\ \A c \in Chans :
       /\ NeverCommanded(c) => Targets[c] = 0
       /\ (Targets[c] = 0 /\ ~NeverCommanded(c)) => sent[c] = 0

C15_Witness ==
  /\ last.op = "setTarget"
  /\ last.err = "none"
  /\ last.arg = 0
  /\ Targets[last.chan] = 0
  /\ ~NeverCommanded(last.chan)
  /\ \E c \in Chans : NeverCommanded(c) /\ Targets[c] = 0

\* the step from a fresh controller on which setRange(1,5000,7000) was the
\* only call to the return of setTarget(1,6900)
RangeThenTarget6900 ==
  /\ nops = 1
  /\ PololuCmd = << 170, 12 >>
  /\ last.op = "setRange" /\ last.chan = 1 /\ last.arg = 5000 /\ last.arg2 = 7000
  /\ last'.op = "setTarget" /\ last'.chan = 1 /\ last'.arg = 6900
  /\ last'.err = "none"

\* C16 as stated: on a fresh controller, setRange(1,5000,7000) followed by
\* setTarget(1,6900) transmits exactly [0xAA,0x0C,0x04,0x01,0x4C,0x35].
C16_Scenario4C ==
  [][ RangeThenTarget6900
      => (last.out = <<>> /\ last'.out = << << 170, 12, 4, 1, 76, 53 >> >>) ]_vars

\* C16 amended: on a fresh controller, setRange(1,5000,7000) followed by
\* setTarget(1,6900) transmits exactly [0xAA,0x0C,0x04,0x01,0x74,0x35].
C16_Scenario74 ==
  [][ RangeThenTarget6900
      => (last.out = <<>> /\ last'.out = << << 170, 12, 4, 1, 116, 53 >> >>) ]_vars

C16_Witness ==
  /\ nops = 2
  /\ last.op = "setTarget" /\ last.chan = 1 /\ last.arg = 6900
  /\ last.err = "none"
  /\ Mins[1] = 5000
  /\ Maxs[1] = 7000
  /\ Targets[1] = 6900
  /\ wire = NoWire
  /\ \A c \in Chans \ {1} : NeverCommanded(c)
  /\ last.out = << << 170, 12, 4, 1, 116, 53 >> >>

\* C17: when the tracked target of a channel is > 0, isMoving(chan) issues
\* one position query for the channel and returns true if and only if the
\* decoded position differs from the tracked target.
C17_MovingIffPositionDiffers ==
  (last.op = "isMoving" /\ last.err = "none" /\ Targets[last.chan] > 0)
  => /\ last.out = << << 170, PololuCmd[2], 16, last.chan >> >>
     /\ Len(last.rd) = 2
     /\ last.ret = (PosRead(last.rd, 1) # Targets[last.chan])

C17_Witness ==
  /\ last.op = "isMoving"
  /\ last.err = "none"
  /\ Targets[last.chan] = 8000
  /\ last.rd = PosBytes(8000)
  /\ last.ret = FALSE

\* the last call was the gesture op and returned
GestureDone(op) == last.op = op /\ last.err = "none"

\* a gesture (fixed channel c, fixed target v) called again in the state its
\* first call left, with result again, leaves the tables as they are and
\* writes the frames the first call wrote: speed 1000, then target v, on c
SecondAsFirst(again, c, v) ==
  /\ again.err = "none"
  /\ again.T = Targets
  /\ again.Mn = Mins
  /\ again.Mx = Maxs
  /\ again.out = last.out
  /\ again.out = << SpeedFrame(c, 1000), TargetFrame(c, v) >>
  /\ Targets[c] = v

\* C18: every absolute gesture is idempotent: from any reachable state,
\* calling it twice in a row leaves Mins, Maxs and Targets as calling it once
\* does, and the second call writes the same frames as the first (speed 1000,
\* then the gesture's fixed target on its fixed channel).
C18_GesturesIdempotent ==
  /\ GestureDone("moveForward") => SecondAsFirst(moveForward(Start(0, <<>>)), 1, 6700)
  /\ GestureDone("moveForwarder") => SecondAsFirst(moveForwarder(Start(0, <<>>)), 1, 6800)
  /\ GestureDone("moveForwardest") => SecondAsFirst(moveForwardest(Start(0, <<>>)), 1, 6900)
  /\ GestureDone("moveBackward") => SecondAsFirst(moveBackward(Start(0, <<>>)), 1, 5400)
  /\ GestureDone("moveBackwarder") => SecondAsFirst(moveBackwarder(Start(0, <<>>)), 1, 5300)
  /\ GestureDone("moveBackwardest") => SecondAsFirst(moveBackwardest(Start(0, <<>>)), 1, 5200)
  /\ GestureDone("stopMotion") => SecondAsFirst(stopMotion(Start(0, <<>>)), 1, 6000)
  /\ GestureDone("turnLeft") => SecondAsFirst(turnLeft(Start(0, <<>>)), 2, 5000)
  /\ GestureDone("turnRight") => SecondAsFirst(turnRight(Start(0, <<>>)), 2, 7000)

C18_Witness ==
  /\ nops = 2
  /\ SecondAsFirst(moveForward(Start(0, <<>>)), 1, 6700)
  /\ last.op = "moveForward"
  /\ last.err = "none"
  /\ last.out = << SpeedFrame(1, 1000), TargetFrame(1, 6700) >>
  /\ Targets[1] = 6700
  /\ Mins[1] = 5000
  /\ Maxs[1] = 7000
  /\ \A c \in Chans \ {1} : NeverCommanded(c) /\ Mins[c] = 0 /\ Maxs[c] = 0

\* C19: for every channel on which a setTarget has completed, the tracked
\* target equals the value carried by the most recent 0x04 frame written for
\* the channel (lsb + 128 * msb).
C19_TargetIsWhatWasSent ==
  \A c \in Chans : ~NeverCommanded(c) => Targets[c] = sent[c]

\* C20: setRange(chan, min, max) writes nothing and changes only the min and
\* max entries of chan: every tracked target and the bounds of every other
\* channel are unchanged (a stored target is not re-clamped); getMin and
\* getMax return the bounds stored for the channel.
C20_SetRangeLocal ==
  [][ /\ last'.op = "setRange"
           => /\ last'.err = "none"
              /\ last'.out = <<>>
              /\ last'.io = 0
              /\ wire' = wire
              /\ sent' = sent
              /\ Targets' = Targets
              /\ Mins' = [Mins EXCEPT ![last'.chan] = last'.arg]
              /\ Maxs' = [Maxs EXCEPT ![last'.chan] = last'.arg2]
      /\ last'.op = "getMin"
           => /\ last'.ret = Mins[last'.chan]
              /\ last'.io = 0
              /\ <<Targets', Mins', Maxs'>> = <<Targets, Mins, Maxs>>
      /\ last'.op = "getMax"
           => /\ last'.ret = Maxs[last'.chan]
              /\ last'.io = 0
              /\ <<Targets', Mins', Maxs'>> = <<Targets, Mins, Maxs>> ]_vars

C20_Witness ==
  /\ last.op = "setRange"
  /\ last.arg = 5000
  /\ last.arg2 = 7000
  /\ Mins[last.chan] = 5000
  /\ Maxs[last.chan] = 7000
  /\ Targets[last.chan] = 8000

====
